---------------------------- MODULE Spec2Model ----------------------------
(***************************************************************************)
(* Model of lib/tornado_cookie.js: the verifier of tornado signed cookie   *)
(* values (formats V1 and V2).                                             *)
(*                                                                         *)
(* A JavaScript string is a sequence of UTF-16 code units (integers), a    *)
(* Buffer a sequence of bytes.  A JavaScript value that may be a string,   *)
(* null, undefined or a thrown TypeError is a record [t, s]; a number that *)
(* may be NaN is a record [nan, val].                                      *)
(***************************************************************************)
EXTENDS Integers, Sequences, FiniteSets, TLC

VARIABLES cookieObj, days, secret, now, last, fieldIn, fieldOut

vars == <<cookieObj, days, secret, now, last, fieldIn, fieldOut>>

(***************************************************************************)
(* Bounds of the model.                                                    *)
(***************************************************************************)
\* hex digits of the modelled HMAC-SHA1 digest (40 in Node)
Sha1HexLen == 3
\* hex digits of the modelled HMAC-SHA256 digest (64 in Node)
Sha256HexLen == 4
\* longest payload the matching encoder signs
MaxPayloadLen == 2
\* largest value of options.days handed to the constructor
MaxDays == 1
\* seconds the clock advances after construction
MaxTicks == 1
\* longest string handed to consumeFieldV2 on its own
MaxFieldInputLen == 4

(***************************************************************************)
(* Characters the code names.                                              *)
(***************************************************************************)
PIPE == 124
COLON == 58
EQUALS == 61
SEMICOLON == 59
SPACE == 32
DEFAULT_SIGNED_VALUE_MIN_VERSION == 1
DEFAULT_DAYS == 31
SECONDS_PER_DAY == 86400
FUTURE_DAYS == 31
MAX_VERSION == 999

Min(a, b) == IF a < b THEN a ELSE b
Max(a, b) == IF a > b THEN a ELSE b

(***************************************************************************)
(* JavaScript values.                                                      *)
(***************************************************************************)
Str(s) == [t |-> "string", s |-> s]
Null == [t |-> "null", s |-> <<>>]
Undefined == [t |-> "undefined", s |-> <<>>]
TypeError == [t |-> "TypeError", s |-> <<>>]

NaN == [nan |-> TRUE, val |-> 0]
Num(n) == [nan |-> FALSE, val |-> n]
\* a < b on numbers: false as soon as one side is NaN
JsLess(a, b) == ~a.nan /\ ~b.nan /\ a.val < b.val
\* ToIntegerOrInfinity, as slice applies it to an index: NaN is 0
ToInteger(x) == IF x.nan THEN 0 ELSE x.val
JsPlus(a, n) == IF a.nan THEN NaN ELSE Num(a.val + n)

JsBoolean(b) == [t |-> "boolean", b |-> b, n |-> 0]
JsNumber(n) == [t |-> "number", b |-> FALSE, n |-> n]
\* x === y: values of different types are never strictly equal
StrictEquals(x, y) == x.t = y.t /\ x.b = y.b /\ x.n = y.n

(***************************************************************************)
(* String.prototype.slice, indexOf, split.                                 *)
(***************************************************************************)
Slice(s, start, end) ==
  LET len == Len(s)
      from == IF start < 0 THEN Max(len + start, 0) ELSE Min(start, len)
      to == IF end < 0 THEN Max(len + end, 0) ELSE Min(end, len)
  IN IF from >= to THEN <<>> ELSE SubSeq(s, from + 1, to)

SliceFrom(s, start) == Slice(s, start, Len(s))

\* index (from 0) of the first c in s, or -1
IndexOf(s, c) ==
  IF \E i \in 1..Len(s) : s[i] = c
  THEN (CHOOSE i \in 1..Len(s) : s[i] = c /\ \A j \in 1..(i - 1) : s[j] # c) - 1
  ELSE -1

\* index (from 0) of the first occurrence of the string sep in s, or -1
IndexOfStr(s, sep) ==
  LET hits == {i \in 1..(Len(s) - Len(sep) + 1) : SubSeq(s, i, i + Len(sep) - 1) = sep}
  IN IF hits = {} THEN -1
     ELSE (CHOOSE i \in hits : \A j \in hits : i <= j) - 1

RECURSIVE Split(_, _)
\* s.split(sep) for a non-empty separator string
Split(s, sep) ==
  LET i == IndexOfStr(s, sep)
  IN IF i < 0 THEN <<s>>
     ELSE <<Slice(s, 0, i)>> \o Split(SliceFrom(s, i + Len(sep)), sep)

RECURSIVE Concat(_)
Concat(parts) == IF parts = <<>> THEN <<>> ELSE Head(parts) \o Concat(Tail(parts))

(***************************************************************************)
(* parseInt(s, 10) and the decimal text of an integer.                     *)
(***************************************************************************)
IsDigit(c) == c >= 48 /\ c <= 57
IsWhiteSpace(c) == c \in {9, 10, 11, 12, 13, 32, 160, 5760, 8232, 8233, 8239, 8287, 12288, 65279}
                   \/ (c >= 8192 /\ c <= 8202)

RECURSIVE SkipWhiteSpace(_)
SkipWhiteSpace(s) ==
  IF s # <<>> /\ IsWhiteSpace(Head(s)) THEN SkipWhiteSpace(Tail(s)) ELSE s

RECURSIVE DigitRun(_)
\* the longest prefix of s made of decimal digits
DigitRun(s) ==
  IF s # <<>> /\ IsDigit(Head(s)) THEN <<Head(s)>> \o DigitRun(Tail(s)) ELSE <<>>

RECURSIVE DigitsValue(_)
DigitsValue(d) ==
  IF d = <<>> THEN 0 ELSE (DigitsValue(SubSeq(d, 1, Len(d) - 1)) * 10) + (d[Len(d)] - 48)

ParseInt(s) ==
  LET t == SkipWhiteSpace(s)
      neg == t # <<>> /\ Head(t) = 45
      u == IF t # <<>> /\ Head(t) \in {43, 45} THEN Tail(t) ELSE t
      d == DigitRun(u)
  IN IF d = <<>> THEN NaN
     ELSE Num(IF neg THEN 0 - DigitsValue(d) ELSE DigitsValue(d))

RECURSIVE NatToString(_)
NatToString(n) ==
  IF n < 10 THEN <<48 + n>> ELSE NatToString(n \div 10) \o <<48 + (n % 10)>>

IntToString(n) == IF n < 0 THEN <<45>> \o NatToString(0 - n) ELSE NatToString(n)


(***************************************************************************)
(* crypto.createHmac(algorithm, secret).update(..).digest('hex').  The     *)
(* digest is modelled as a keyed checksum written as lowercase hex digits: *)
(* a function of the algorithm, the key and the bytes fed to update, of    *)
(* fixed length.                                                           *)
(***************************************************************************)
HexDigit(v) == IF v < 10 THEN 48 + v ELSE 97 + (v - 10)

RECURSIVE HashFold(_, _)
HashFold(h, s) ==
  IF s = <<>> THEN h ELSE HashFold(((h * 31) + Head(s) + 1) % 65521, Tail(s))

HmacHex(hexLen, key, data) ==
  [i \in 1..hexLen |->
     HexDigit(HashFold(HashFold(HashFold((hexLen * 131) + (i * 7919), key), <<0>>), data) % 16)]

\* hash.update(part) for each part in turn, then digest: the hash of the
\* concatenation of the parts
createSignatureV1(ary, key) == HmacHex(Sha1HexLen, key, Concat(ary))

createSignatureV2(s, key) == HmacHex(Sha256HexLen, key, s)

(***************************************************************************)
(* timeIndependentEquals: the OR of the XORs of the code units.            *)
(***************************************************************************)
RECURSIVE BitXor(_, _)
BitXor(a, b) ==
  IF a = 0 /\ b = 0 THEN 0
  ELSE (((a % 2) + (b % 2)) % 2) + 2 * BitXor(a \div 2, b \div 2)

RECURSIVE BitOr(_, _)
BitOr(a, b) ==
  IF a = 0 /\ b = 0 THEN 0
  ELSE (IF (a % 2) = 1 \/ (b % 2) = 1 THEN 1 ELSE 0) + 2 * BitOr(a \div 2, b \div 2)

RECURSIVE XorAccumulate(_, _, _)
XorAccumulate(a, b, result) ==
  IF a = <<>> THEN result
  ELSE XorAccumulate(Tail(a), Tail(b), BitOr(result, BitXor(Head(a), Head(b))))

timeIndependentEqualsLengthOnly(a, b) == Len(a) = Len(b)

timeIndependentEquals(a, b) ==
  IF Len(a) # Len(b) THEN FALSE ELSE XorAccumulate(a, b, 0) = 0

(***************************************************************************)
(* new Buffer(s, 'base64').toString('utf8'), and the encoder's inverse     *)
(* (base64 of the UTF-8 bytes of the payload).                             *)
(***************************************************************************)
\* the value of a base64 character (also of the URL-safe - and _), or -1
Unbase64(c) ==
  IF c >= 65 /\ c <= 90 THEN c - 65
  ELSE IF c >= 97 /\ c <= 122 THEN c - 97 + 26
  ELSE IF c >= 48 /\ c <= 57 THEN c - 48 + 52
  ELSE IF c = 43 \/ c = 45 THEN 62
  ELSE IF c = 47 \/ c = 95 THEN 63
  ELSE -1

Base64Char(v) ==
  IF v < 26 THEN 65 + v
  ELSE IF v < 52 THEN 97 + (v - 26)
  ELSE IF v < 62 THEN 48 + (v - 52)
  ELSE IF v = 62 THEN 43 ELSE 47

RECURSIVE Sextets(_)
\* the values of the base64 characters of s up to the first '=', the
\* characters outside the alphabet skipped
Sextets(s) ==
  IF s = <<>> \/ Head(s) = EQUALS THEN <<>>
  ELSE IF Unbase64(Head(s)) < 0 THEN Sextets(Tail(s))
  ELSE <<Unbase64(Head(s))>> \o Sextets(Tail(s))

RECURSIVE SextetsToBytes(_)
SextetsToBytes(v) ==
  IF Len(v) < 2 THEN <<>>
  ELSE IF Len(v) = 2 THEN <<(v[1] * 4) + (v[2] \div 16)>>
  ELSE IF Len(v) = 3 THEN <<(v[1] * 4) + (v[2] \div 16), ((v[2] % 16) * 16) + (v[3] \div 4)>>
  ELSE <<(v[1] * 4) + (v[2] \div 16), ((v[2] % 16) * 16) + (v[3] \div 4), ((v[3] % 4) * 64) + v[4]>>
       \o SextetsToBytes(SubSeq(v, 5, Len(v)))

Base64Decode(s) == SextetsToBytes(Sextets(s))

RECURSIVE Base64Encode(_)
Base64Encode(b) ==
  IF b = <<>> THEN <<>>
  ELSE IF Len(b) = 1
    THEN <<Base64Char(b[1] \div 4), Base64Char((b[1] % 4) * 16), EQUALS, EQUALS>>
  ELSE IF Len(b) = 2
    THEN <<Base64Char(b[1] \div 4), Base64Char(((b[1] % 4) * 16) + (b[2] \div 16)),
           Base64Char((b[2] % 16) * 4), EQUALS>>
  ELSE <<Base64Char(b[1] \div 4), Base64Char(((b[1] % 4) * 16) + (b[2] \div 16)),
         Base64Char(((b[2] % 16) * 4) + (b[3] \div 64)), Base64Char(b[3] % 64)>>
       \o Base64Encode(SubSeq(b, 4, Len(b)))

\* the UTF-16 code units of a code point
CodeUnits(cp) ==
  IF cp < 65536 THEN <<cp>>
  ELSE <<55296 + ((cp - 65536) \div 1024), 56320 + ((cp - 65536) % 1024)>>

RECURSIVE Utf8Decode(_, _, _, _, _, _)
\* the UTF-8 decoder of toString('utf8'): an ill-formed sequence becomes
\* U+FFFD and decoding resumes at the byte that broke it
Utf8Decode(b, cp, needed, seen, lower, upper) ==
  IF b = <<>> THEN (IF needed # 0 THEN <<65533>> ELSE <<>>)
  ELSE LET x == Head(b) IN
    IF needed = 0 THEN
      IF x <= 127 THEN <<x>> \o Utf8Decode(Tail(b), 0, 0, 0, 128, 191)
      ELSE IF x >= 194 /\ x <= 223 THEN Utf8Decode(Tail(b), x % 32, 1, 0, 128, 191)
      ELSE IF x >= 224 /\ x <= 239
        THEN Utf8Decode(Tail(b), x % 16, 2, 0,
                        IF x = 224 THEN 160 ELSE 128, IF x = 237 THEN 159 ELSE 191)
      ELSE IF x >= 240 /\ x <= 244
        THEN Utf8Decode(Tail(b), x % 8, 3, 0,
                        IF x = 240 THEN 144 ELSE 128, IF x = 244 THEN 143 ELSE 191)
      ELSE <<65533>> \o Utf8Decode(Tail(b), 0, 0, 0, 128, 191)
    ELSE IF x < lower \/ x > upper
      THEN <<65533>> \o Utf8Decode(b, 0, 0, 0, 128, 191)
    ELSE IF seen + 1 = needed
      THEN CodeUnits((cp * 64) + (x % 64)) \o Utf8Decode(Tail(b), 0, 0, 0, 128, 191)
    ELSE Utf8Decode(Tail(b), (cp * 64) + (x % 64), needed, seen + 1, 128, 191)

BufferToUtf8String(b) == Utf8Decode(b, 0, 0, 0, 128, 191)

\* the bytes read one code unit each, as toString('binary') would
Base64ToLatin1(s) == Base64Decode(s)

\* new Buffer(s, 'base64').toString('utf8'); it throws for no string s
Base64ToUtf8(s) == BufferToUtf8String(Base64Decode(s))

RECURSIVE Utf8Encode(_)
\* the UTF-8 bytes of a string of code units below U+D800
Utf8Encode(s) ==
  IF s = <<>> THEN <<>>
  ELSE LET c == Head(s) IN
    (IF c < 128 THEN <<c>>
     ELSE IF c < 2048 THEN <<192 + (c \div 64), 128 + (c % 64)>>
     ELSE <<224 + (c \div 4096), 128 + ((c \div 64) % 64), 128 + (c % 64)>>)
    \o Utf8Encode(Tail(s))

(***************************************************************************)
(* consumeFieldV2(s): [field, rest], or null.                              *)
(***************************************************************************)
NoField == [ok |-> FALSE, field |-> <<>>, rest |-> <<>>]

consumeFieldV2(s) ==
  LET fs == IndexOf(s, COLON)
      length == Slice(s, 0, fs)
      rest == SliceFrom(s, fs + 1)
      n == ParseInt(length)
      field == Slice(rest, 0, ToInteger(n))
  IN IF Slice(rest, ToInteger(n), ToInteger(JsPlus(n, 1))) # <<PIPE>>
     THEN NoField
     ELSE [ok |-> TRUE, field |-> field, rest |-> SliceFrom(rest, ToInteger(JsPlus(n, 1)))]

(***************************************************************************)
(* The timestamp checks of the two decoders.                               *)
(***************************************************************************)
expiredV1OffByOne(timestamp, clock, d) ==
  JsLess(timestamp, Num(clock - (d * SECONDS_PER_DAY) + 1))

\* timestamp < (now - maxAgeDays), maxAgeDays = days * 86400
expiredV1(timestamp, clock, d) == JsLess(timestamp, Num(clock - (d * SECONDS_PER_DAY)))

\* timestamp < now - maxAgeDays
expiredV2(timestamp, clock, d) == JsLess(timestamp, Num(clock - (d * SECONDS_PER_DAY)))

inFutureV1OffByOne(timestamp, clock) ==
  JsLess(Num(clock + (FUTURE_DAYS * SECONDS_PER_DAY) - 1), timestamp)

\* timestamp > now + 31 * 86400
inFutureV1(timestamp, clock) == JsLess(Num(clock + (FUTURE_DAYS * SECONDS_PER_DAY)), timestamp)

(***************************************************************************)
(* decodeSignedValueV1(name, value, secret, days), read at time clock.     *)
(***************************************************************************)
decodeSignedValueV1(name, value, key, d, clock) ==
  LET parts == Split(value, <<PIPE>>) IN
  IF Len(parts) # 3 THEN Null
  ELSE
    LET ary == <<name, parts[1], parts[2]>>
        sig == createSignatureV1(ary, key)
        timeEqualed == JsBoolean(timeIndependentEquals(parts[3], sig))
        timestamp == ParseInt(parts[2])
    IN IF StrictEquals(timeEqualed, JsNumber(0)) THEN Null
       ELSE IF expiredV1(timestamp, clock, d) THEN Null
       ELSE IF inFutureV1(timestamp, clock) THEN Null
       ELSE IF IndexOf(parts[2], 48) = 0 THEN Null
       ELSE Str(Base64ToUtf8(parts[1]))

(***************************************************************************)
(* decodeSignedValueV2(name, value, secret, days), read at time clock.     *)
(***************************************************************************)
nameFieldDiffersNever(nameField, name) == FALSE

\* nameField !== name
nameFieldDiffers(nameField, name) == nameField # name

\* the four fields consumed one after the other from value.slice(2); the
\* first that fails leaves ok FALSE
consumeFieldsV2(value) ==
  LET f1 == consumeFieldV2(SliceFrom(value, 2)) IN
  IF ~f1.ok THEN [ok |-> FALSE] ELSE
  LET f2 == consumeFieldV2(f1.rest) IN
  IF ~f2.ok THEN [ok |-> FALSE] ELSE
  LET f3 == consumeFieldV2(f2.rest) IN
  IF ~f3.ok THEN [ok |-> FALSE] ELSE
  LET f4 == consumeFieldV2(f3.rest) IN
  IF ~f4.ok THEN [ok |-> FALSE] ELSE
  [ok |-> TRUE, keyVersion |-> f1.field, timestamp |-> f2.field,
   nameField |-> f3.field, valueField |-> f4.field, passedSig |-> f4.rest]

decodeSignedValueV2(name, value, key, d, clock) ==
  LET f == consumeFieldsV2(value) IN
  IF ~f.ok THEN Null
  ELSE
    LET passedSig == f.passedSig
        signedString == Slice(value, 0, 0 - Len(passedSig))
        expectedSig == createSignatureV2(signedString, key)
        timestamp == ParseInt(f.timestamp)
    IN IF ~timeIndependentEquals(passedSig, expectedSig) THEN Null
       ELSE IF nameFieldDiffers(f.nameField, name) THEN Null
       ELSE IF expiredV2(timestamp, clock, d) THEN Null
       ELSE Str(Base64ToUtf8(f.valueField))

(***************************************************************************)
(* The constructor and parseCookie.                                        *)
(***************************************************************************)
RECURSIVE parseCookiePairs(_, _)
\* the loop of parseCookie over ary, a later pair replacing an earlier one
\* of the same key
parseCookiePairs(ary, obj) ==
  IF ary = <<>> THEN obj
  ELSE
    LET index == IndexOf(Head(ary), EQUALS)
        key == Slice(Head(ary), 0, index)
        value == SliceFrom(Head(ary), index + 1)
    IN parseCookiePairs(Tail(ary),
         [k \in (DOMAIN obj) \cup {key} |-> IF k = key THEN Str(value) ELSE obj[k]])

parseCookie(cookie) == parseCookiePairs(Split(cookie, <<SEMICOLON, SPACE>>), <<>>)

\* this.cookieObj: the parsed string, or the object as it is
TornadoCookieObj(cookie) ==
  IF cookie.isObject THEN cookie.obj ELSE parseCookie(cookie.str)

\* this.days: options.days when options is an object that has it
TornadoCookieDays(options) == IF options.hasDays THEN options.days ELSE DEFAULT_DAYS

(***************************************************************************)
(* getSecureCookie(name).                                                  *)
(***************************************************************************)
\* m[1] of value.match(/^([1-9][0-9]*)\|(.*)$/), or <<>> when m is null
versionMatch(value) ==
  LET d == DigitRun(value) IN
  IF /\ d # <<>>
     /\ d[1] # 48
     /\ Len(value) > Len(d)
     /\ value[Len(d) + 1] = PIPE
     /\ \A i \in 1..Len(value) : value[i] \notin {10, 13, 8232, 8233}
  THEN d ELSE <<>>

signedValueVersionNoCap(value) ==
  LET m == versionMatch(value) IN
  IF m = <<>> THEN 1 ELSE ParseInt(m).val

signedValueVersion(value) ==
  LET m == versionMatch(value) IN
  IF m = <<>> THEN 1
  ELSE LET version == ParseInt(m) IN
       IF version.nan THEN 1
       ELSE IF version.val > MAX_VERSION THEN 1 ELSE version.val

\* this.cookieObj[name]
lookup(obj, name) == IF name \in DOMAIN obj THEN obj[name] ELSE Undefined

getSecureCookie(obj, key, d, name, clock) ==
  LET value == lookup(obj, name) IN
  IF value = Null THEN Null
  ELSE IF value.t # "string" THEN TypeError
  ELSE
    LET version == signedValueVersion(value.s) IN
    IF version < DEFAULT_SIGNED_VALUE_MIN_VERSION THEN Null
    ELSE IF version = 1 THEN decodeSignedValueV1(name, value.s, key, d, clock)
    ELSE IF version = 2 THEN decodeSignedValueV2(name, value.s, key, d, clock)
    ELSE Null

(***************************************************************************)
(* The inputs: cookie values as a server holding the secret KEY1 writes    *)
(* them (the signed-value formats of tornado), and damaged ones.           *)
(***************************************************************************)
\* the clock when the object is constructed
Now0 == 3000000

NAME_U == <<117>>
NAME_V == <<118>>
NAME_Z == <<122>>
KEY1 == <<107>>
KEY2 == <<113>>

Secrets == {KEY1, KEY2}
SignNames == {NAME_U, NAME_V}
LookupNames == {NAME_U, NAME_Z}

\* payloads: the prefixes of two texts, one of which has the base64 "1400"
PayloadTexts == {<<1485, 52, 104, 105>>, <<104, 105, 33, 52>>}
Payloads == {SubSeq(p, 1, n) : p \in PayloadTexts, n \in 0..MaxPayloadLen}
Payload0 == <<104>>

OptionsSet == {[hasDays |-> FALSE, days |-> 0]}
              \cup {[hasDays |-> TRUE, days |-> d] : d \in 1..MaxDays}
DaysSet == {TornadoCookieDays(o) : o \in OptionsSet}

TimestampValues ==
  {Now0 - (d * SECONDS_PER_DAY) : d \in DaysSet}
  \cup {5, Now0, Now0 + (FUTURE_DAYS * SECONDS_PER_DAY) + 1, Now0 + (40 * SECONDS_PER_DAY)}
TimestampStrings ==
  {IntToString(v) : v \in TimestampValues}
  \cup {<<>>, <<120>>, <<48>> \o IntToString(Now0), IntToString(Now0) \o <<120>>}

B64(P) == Base64Encode(Utf8Encode(P))

\* V1: <payload>|<timestamp>|<hmac-sha1 over name, payload, timestamp>
SignV1(b64, ts, N, key) ==
  b64 \o <<PIPE>> \o ts \o <<PIPE>> \o createSignatureV1(<<N, b64, ts>>, key)
EncodeV1(P, ts, N, key) == SignV1(B64(P), ts, N, key)

FrameField(s) == IntToString(Len(s)) \o <<COLON>> \o s \o <<PIPE>>
\* V2 without its signature: <version>|<len>:<keyVersion>|<len>:<timestamp>|
\* <len>:<name>|<len>:<payload>|
FramedV2(version, b64, ts, N) ==
  version \o <<PIPE>> \o FrameField(<<48>>) \o FrameField(ts) \o FrameField(N)
  \o FrameField(b64)
SignV2(version, b64, ts, N, key) ==
  FramedV2(version, b64, ts, N) \o createSignatureV2(FramedV2(version, b64, ts, N), key)
EncodeV2(P, ts, N, key) == SignV2(<<50>>, B64(P), ts, N, key)

\* a signature with its first digit changed
FlipSig(sig) == <<IF sig[1] = 48 THEN 49 ELSE 48>> \o Tail(sig)

V1Recipes == [payload : Payloads, ts : TimestampStrings, name : SignNames]
\* the values of the recipes, as tables computed once
V1Table == [r \in V1Recipes |-> EncodeV1(r.payload, r.ts, r.name, KEY1)] @@ <<>>
V2Table == [r \in V1Recipes |-> EncodeV2(r.payload, r.ts, r.name, KEY1)] @@ <<>>

V1Good == {V1Table[r] : r \in V1Recipes}
V2Good == {V2Table[r] : r \in V1Recipes}

\* the signatures that are not the one the value should carry
BadSigs(sig) == {<<>>, FlipSig(sig), Tail(sig)}

V1BadSig ==
  UNION {{B64(Payload0) \o <<PIPE>> \o ts \o <<PIPE>> \o sig :
            sig \in BadSigs(createSignatureV1(<<NAME_U, B64(Payload0), ts>>, KEY1))} :
         ts \in TimestampStrings}
  \cup {B64(<<105>>) \o <<PIPE>> \o IntToString(Now0) \o <<PIPE>>
          \o createSignatureV1(<<NAME_U, B64(Payload0), IntToString(Now0)>>, KEY1)}

V2BadSig ==
  UNION {{FramedV2(<<50>>, B64(Payload0), r.ts, r.name) \o sig :
            sig \in BadSigs(createSignatureV2(FramedV2(<<50>>, B64(Payload0), r.ts, r.name), KEY1))} :
         r \in [ts : TimestampStrings, name : SignNames]}

VersionPrefixes ==
  {<<48>>, <<49>>, <<50>>, <<51>>, <<49, 48>>, <<57, 57, 57>>, <<49, 48, 48, 48>>,
   <<48, 50>>, <<48, 51>>}

\* three-part values whose first part is a run of digits, signed as V1, and
\* V2 framings under other version numbers
VersionValues ==
  {SignV1(v, IntToString(Now0), NAME_U, KEY1) : v \in VersionPrefixes}
  \cup {SignV2(v, B64(Payload0), IntToString(Now0), NAME_U, KEY1) : v \in VersionPrefixes}

\* V2 values whose name field declares a length that is not its own
MisframedV2 ==
  {LET body == <<50, PIPE>> \o FrameField(<<48>>) \o FrameField(IntToString(Now0))
               \o IntToString(n) \o <<COLON>> \o NAME_U \o <<PIPE>>
               \o FrameField(B64(Payload0))
   IN body \o createSignatureV2(body, KEY1) : n \in {0, 2, 3}}

CookieValues == V1Good \cup V2Good \cup V1BadSig \cup V2BadSig \cup VersionValues
                \cup MisframedV2

\* the cookie argument of the constructor: a Cookie header, or an object
HeaderOf(v) == NAME_U \o <<EQUALS>> \o v
\* a header that holds other cookies too, one of them without a value
LongHeaderOf(v) ==
  <<115, EQUALS, 49, SEMICOLON, SPACE>> \o HeaderOf(v) \o <<SEMICOLON, SPACE, 120>>
CookieInputs ==
  {[isObject |-> FALSE, str |-> HeaderOf(v), obj |-> <<>>] : v \in CookieValues}
  \cup {[isObject |-> TRUE, str |-> <<>>, obj |-> [k \in {NAME_U} |-> Str(v)]] : v \in CookieValues}
  \cup {[isObject |-> FALSE, str |-> LongHeaderOf(v), obj |-> <<>>] : v \in VersionValues}
  \cup {[isObject |-> FALSE, str |-> s, obj |-> <<>>] : s \in {<<>>, NAME_U, <<115, EQUALS, 49>>}}
  \cup {[isObject |-> TRUE, str |-> <<>>, obj |-> <<>>],
        [isObject |-> TRUE, str |-> <<>>, obj |-> [k \in {NAME_U} |-> Null]]}

(***************************************************************************)
(* The state machine: an object after its construction, calls of           *)
(* getSecureCookie, and the clock that each call reads.                    *)
(***************************************************************************)
NoCall == [called |-> FALSE, name |-> <<>>, now |-> 0, ret |-> Null]
NoFieldCall == [called |-> FALSE, ret |-> NoField]

Init ==
  /\ \E cookie \in CookieInputs, key \in Secrets, options \in OptionsSet :
       /\ cookieObj = TornadoCookieObj(cookie)
       /\ days = TornadoCookieDays(options)
       /\ secret = key
  /\ now = Now0
  /\ last = NoCall
  /\ fieldIn = <<>>
  /\ fieldOut = NoFieldCall

GetSecureCookie(name) ==
  /\ last' = [called |-> TRUE, name |-> name, now |-> now,
              ret |-> getSecureCookie(cookieObj, secret, days, name, now)]
  /\ UNCHANGED <<cookieObj, days, secret, now, fieldIn, fieldOut>>

\* the wall clock, (new Date()).getTime() / 1000, moves on
Tick ==
  /\ now < Now0 + MaxTicks
  /\ now' = now + 1
  /\ UNCHANGED <<cookieObj, days, secret, last, fieldIn, fieldOut>>

Next ==
  \/ \E name \in LookupNames : GetSecureCookie(name)
  \/ Tick

Spec == Init /\ [][Next]_vars

(***************************************************************************)
(* consumeFieldV2 on its own, applied to every short string.               *)
(***************************************************************************)
FieldChars == {49, 50, COLON, PIPE, 97, 45}
FieldInputs == UNION {[1..n -> FieldChars] : n \in 0..MaxFieldInputLen}

InitField ==
  /\ fieldIn \in FieldInputs
  /\ fieldOut = NoFieldCall
  /\ cookieObj = <<>>
  /\ days = DEFAULT_DAYS
  /\ secret = KEY1
  /\ now = Now0
  /\ last = NoCall

ConsumeField ==
  /\ ~fieldOut.called
  /\ fieldOut' = [called |-> TRUE, ret |-> consumeFieldV2(fieldIn)]
  /\ UNCHANGED <<cookieObj, days, secret, now, last, fieldIn>>

NextField == ConsumeField

SpecField == InitField /\ [][NextField]_vars

(***************************************************************************)
(* Properties.                                                             *)
(***************************************************************************)
\* the value the last call of getSecureCookie looked up
LastValue == lookup(cookieObj, last.name)
\* the last call was handed a string under the version it names
LastCalledOn(version) ==
  /\ last.called
  /\ LastValue.t = "string"
  /\ signedValueVersion(LastValue.s) = version
IsDecimal(s) == s # <<>> /\ \A i \in 1..Len(s) : IsDigit(s[i])
\* the last call looked up, under the name it was signed for, the value the
\* server made from recipe r with the secret the object holds
LastIsV1Of(r) ==
  /\ last.called
  /\ LastValue = Str(V1Table[r])
  /\ secret = KEY1
  /\ last.name = r.name
LastIsV2Of(r) ==
  /\ last.called
  /\ LastValue = Str(V2Table[r])
  /\ secret = KEY1
  /\ last.name = r.name
MaxAge == days * SECONDS_PER_DAY
FutureSkew == FUTURE_DAYS * SECONDS_PER_DAY

\* C1: a three-part V1 value whose third part is not the HMAC-SHA1 digest of
\* name, payload and timestamp decodes to null.
C1_V1SignatureChecked ==
  (LastCalledOn(1) /\ Len(Split(LastValue.s, <<PIPE>>)) = 3)
  => LET parts == Split(LastValue.s, <<PIPE>>) IN
     parts[3] # HmacHex(Sha1HexLen, secret, last.name \o parts[1] \o parts[2])
     => last.ret = Null

\* C2: a V2 value from which four fields are consumed yields a payload only
\* if what follows the fourth field is the HMAC-SHA256 digest of everything
\* before it; an empty signature yields null.
C2_V2SignatureRequired ==
  (LastCalledOn(2) /\ consumeFieldsV2(LastValue.s).ok /\ last.ret.t = "string")
  => LET value == LastValue.s
         passedSig == consumeFieldsV2(value).passedSig
     IN /\ passedSig # <<>>
        /\ passedSig = SubSeq(value, Len(value) - Len(passedSig) + 1, Len(value))
        /\ passedSig = HmacHex(Sha256HexLen, secret,
                               SubSeq(value, 1, Len(value) - Len(passedSig)))

C2_Witness ==
  /\ LastCalledOn(2)
  /\ consumeFieldsV2(LastValue.s).ok
  /\ last.ret.t = "string"

\* C3: getSecureCookie(name) returns null when the mapping has no such name.
C3_AbsentNameReturnsNull ==
  (last.called /\ last.name \notin DOMAIN cookieObj) => last.ret = Null

\* C4: a value the matching encoder made (V1 or V2) with a timestamp that is
\* not in the future and not expired decodes, under its name and secret, to
\* exactly the payload that was encoded.
C4_RoundTrip ==
  \A r \in V1Recipes :
    ((LastIsV1Of(r) \/ LastIsV2Of(r)) /\ IsDecimal(r.ts) /\ r.ts[1] # 48
     /\ DigitsValue(r.ts) <= last.now /\ DigitsValue(r.ts) >= last.now - MaxAge)
    => last.ret = Str(r.payload)

\* a V1 value whose base64 payload is "1400" came back as its payload
C4_Witness ==
  \E r \in V1Recipes :
    /\ LastIsV1Of(r)
    /\ r.payload = <<1485, 52>>
    /\ B64(r.payload) = <<49, 52, 48, 48>>
    /\ last.ret = Str(r.payload)

\* C5: a V2 value yields a payload only when its name field is the name
\* asked for; a correctly signed value asked for under another name yields
\* null.
C5_NameBinding ==
  /\ (LastCalledOn(2) /\ consumeFieldsV2(LastValue.s).ok /\ last.ret.t = "string")
     => consumeFieldsV2(LastValue.s).nameField = last.name
  /\ \A r \in V1Recipes :
       (last.called /\ LastValue = Str(V2Table[r]) /\ r.name # last.name)
       => last.ret = Null

C5_Witness ==
  \E r \in V1Recipes :
    /\ last.called
    /\ LastValue = Str(V2Table[r])
    /\ secret = KEY1
    /\ r.name # last.name
    /\ r.ts = IntToString(last.now)
    /\ last.ret = Null

\* C6: a correctly signed value whose timestamp is exactly now - days*86400
\* is accepted, and one with an older timestamp yields null.
C6_ExpiryBoundary ==
  \A r \in V1Recipes :
    ((LastIsV1Of(r) \/ LastIsV2Of(r)) /\ IsDecimal(r.ts) /\ r.ts[1] # 48)
    => /\ DigitsValue(r.ts) = last.now - MaxAge => last.ret = Str(r.payload)
       /\ DigitsValue(r.ts) < last.now - MaxAge => last.ret = Null

C6_Witness ==
  \E r \in V1Recipes :
    /\ LastIsV1Of(r)
    /\ IsDecimal(r.ts)
    /\ DigitsValue(r.ts) = last.now - MaxAge
    /\ last.ret = Str(r.payload)

\* C7: a correctly signed V1 value is accepted with the timestamp
\* now + 31*86400 and yields null with a later one, whatever days is; a
\* correctly signed V2 value with such a timestamp is accepted.
C7_FutureSkew ==
  \A r \in V1Recipes :
    (IsDecimal(r.ts) /\ r.ts[1] # 48)
    => /\ LastIsV1Of(r) =>
            /\ DigitsValue(r.ts) = last.now + FutureSkew => last.ret = Str(r.payload)
            /\ DigitsValue(r.ts) > last.now + FutureSkew => last.ret = Null
       /\ LastIsV2Of(r) =>
            (DigitsValue(r.ts) >= last.now + FutureSkew => last.ret = Str(r.payload))

C7_Witness ==
  \E r \in V1Recipes :
    /\ LastIsV2Of(r)
    /\ IsDecimal(r.ts)
    /\ DigitsValue(r.ts) > last.now + FutureSkew
    /\ last.ret = Str(r.payload)

C9_FieldFraming ==
  fieldOut.called
  => LET s == fieldIn
         fs == IndexOf(s, COLON)
         prefix == SubSeq(s, 1, fs)
         n == DigitsValue(prefix)
         framed == /\ fs >= 0
                   /\ IsDecimal(prefix)
                   /\ Len(s) >= fs + 1 + n + 1
                   /\ s[fs + 1 + n + 1] = PIPE
     IN /\ fieldOut.ret.ok <=> framed
        /\ framed => /\ fieldOut.ret.field = SubSeq(s, fs + 2, fs + 1 + n)
                     /\ fieldOut.ret.rest = SubSeq(s, fs + 1 + n + 2, Len(s))

\* C10: a three-part V1 value yields a payload only if its timestamp part
\* parses as a base-10 integer.
C10_V1TimestampParses ==
  (LastCalledOn(1) /\ Len(Split(LastValue.s, <<PIPE>>)) = 3 /\ last.ret.t = "string")
  => ~ParseInt(Split(LastValue.s, <<PIPE>>)[2]).nan

=============================================================================
